---- MODULE Spec2Model ----
(***************************************************************************)
(* Model of the hiring-manager service (src/src/app.ts): the question      *)
(* validator validateQuestion and the scoring engine calculateScore, run   *)
(* on request bodies as the handlers receive them, i.e. on arbitrary JSON  *)
(* values (the TypeScript types of src/unnamed/part_001 are erased at run  *)
(* time and req.body is not checked against them), and of the handlers of  *)
(* the HTTP API with the two in-memory stores they write.                  *)
(*                                                                         *)
(* JavaScript values are records tagged by their kind k:                   *)
(*   undefined, null, bool (b), num (a rational n/d in lowest terms),      *)
(*   nan, str (s: the sequence of its characters), arr (e: the sequence of *)
(*   its elements), obj (a JSON object; prim tells whether it converts to  *)
(*   a primitive: an object with own "toString" and "valueOf" members that *)
(*   are not functions, such as {"toString": null, "valueOf": null}, does  *)
(*   not, and converting it throws a TypeError).                           *)
(* Numbers are exact rationals: IEEE-754 rounding is not modelled.         *)
(***************************************************************************)
EXTENDS Integers, Sequences, FiniteSets, TLC

VARIABLES question, answer, errors, score, pc,
          jobsStore, applicationsStore, request, response, nextId,
          inflight, served, server, exitCode

\* the state of the service: the two stores, the request being served with
\* the response to it, and the number of ids uuidv4 has handed out so far
appVars == <<jobsStore, applicationsStore, request, response, nextId>>

\* the state of the process around the routes: the requests that have
\* arrived and wait for their handler, the requests handled so far in the
\* order of their handlers, the HTTP server of server.ts, and the code the
\* process has exited with
hostVars == <<inflight, served, server, exitCode>>

vars ==
  <<question, answer, errors, score, pc,
    jobsStore, applicationsStore, request, response, nextId,
    inflight, served, server, exitCode>>

(***************************************************************************)
(* Bounds of the model.                                                    *)
(***************************************************************************)
\* numbers offered for min, max and numeric answers range over -1..MaxNum
MaxNum == 2
\* points offered range over -1..MaxPoints (plus absent and ill-typed values)
MaxPoints == 3
\* option / keyword lists have at most MaxList entries
MaxList == 2
\* answer arrays have at most MaxAnswer entries
MaxAnswer == 2

(***************************************************************************)
(* JavaScript values.                                                      *)
(***************************************************************************)
Undefined == [k |-> "undefined"]
Null == [k |-> "null"]
NaN == [k |-> "nan"]
Obj == [k |-> "obj", prim |-> TRUE]
ObjNoPrimitive == [k |-> "obj", prim |-> FALSE]
Bool(b) == [k |-> "bool", b |-> b]
Str(s) == [k |-> "str", s |-> s]
Arr(e) == [k |-> "arr", e |-> e]

Abs(i) == IF i < 0 THEN -i ELSE i

RECURSIVE Gcd(_, _)
Gcd(a, b) == IF b = 0 THEN a ELSE Gcd(b, a % b)

\* the number n/d (d > 0), in lowest terms so that equal numbers are equal records
Rat(n, d) ==
  LET g == Gcd(Abs(n), d)
  IN [k |-> "num", n |-> n \div g, d |-> d \div g]

Num(i) == Rat(i, 1)

IsNullish(v) == v.k \in {"undefined", "null"}
IsString(v) == v.k = "str"
IsArray(v) == v.k = "arr"
\* typeof v === 'number'
IsNumber(v) == v.k \in {"num", "nan"}

\* ToBoolean: undefined, null, false, 0, NaN and "" are falsy
Truthy(v) ==
  CASE v.k \in {"undefined", "null", "nan"} -> FALSE
    [] v.k = "bool" -> v.b
    [] v.k = "num" -> v.n # 0
    [] v.k = "str" -> Len(v.s) > 0
    [] OTHER -> TRUE

\* a === b. Arrays and objects compare by reference; the values compared in
\* this program always come from different places of the request bodies, so
\* two arrays or two objects are never the same reference.
StrictEquals(a, b) ==
  /\ a.k = b.k
  /\ a.k \notin {"nan", "arr", "obj"}
  /\ a = b

\* SameValueZero, the comparison of Array.prototype.includes and of Set: as
\* === except that NaN equals NaN.
SameValueZero(a, b) ==
  \/ StrictEquals(a, b)
  \/ a.k = "nan" /\ b.k = "nan"

(***************************************************************************)
(* Strings: characters, case conversion, trimming, substring search.      *)
(***************************************************************************)
Digits == <<"0", "1", "2", "3", "4", "5", "6", "7", "8", "9">>

IsDigit(c) == \E i \in 1..10 : Digits[i] = c

DigitValue(c) == (CHOOSE i \in 1..10 : Digits[i] = c) - 1

IsSpace(c) == c = " "

\* String.prototype.toLowerCase on one character of the model's alphabet
LowerChar(c) ==
  CASE c = "A" -> "a"
    [] c = "B" -> "b"
    [] c = "C" -> "c"
    [] OTHER -> c

toLowerCase(s) == [i \in 1..Len(s) |-> LowerChar(s[i])]

RECURSIVE TrimStart(_)
TrimStart(s) ==
  IF s # <<>> /\ IsSpace(Head(s)) THEN TrimStart(Tail(s)) ELSE s

RECURSIVE TrimEnd(_)
TrimEnd(s) ==
  IF s # <<>> /\ IsSpace(s[Len(s)]) THEN TrimEnd(SubSeq(s, 1, Len(s) - 1)) ELSE s

\* String.prototype.trim
trim(s) == TrimEnd(TrimStart(s))

\* String.prototype.includes: sub occurs in s as a contiguous substring
StringIncludes(s, sub) ==
  \E i \in 1..(Len(s) - Len(sub) + 1) : SubSeq(s, i, i + Len(sub) - 1) = sub

(***************************************************************************)
(* Conversions and operators of the language.                              *)
(***************************************************************************)
\* code units of the characters of the model's alphabet, for string comparison
CharCode(c) ==
  CASE c = " " -> 32
    [] c = "," -> 44
    [] c = "-" -> 45
    [] IsDigit(c) -> 48 + DigitValue(c)
    [] c = "A" -> 65
    [] c = "B" -> 66
    [] c = "C" -> 67
    [] c = "a" -> 97
    [] c = "b" -> 98
    [] c = "c" -> 99
    [] OTHER -> 120

RECURSIVE NatToStr(_)
NatToStr(i) ==
  IF i < 10 THEN <<Digits[i + 1]>>
  ELSE Append(NatToStr(i \div 10), Digits[(i % 10) + 1])

RECURSIVE JoinStr(_)
RECURSIVE ToStr(_)
\* ToString. Numbers in the request bodies of the model are integers.
ToStr(v) ==
  CASE v.k = "str" -> v.s
    [] v.k = "undefined" -> <<"u", "n", "d", "e", "f", "i", "n", "e", "d">>
    [] v.k = "null" -> <<"n", "u", "l", "l">>
    [] v.k = "bool" -> IF v.b THEN <<"t", "r", "u", "e">> ELSE <<"f", "a", "l", "s", "e">>
    [] v.k = "nan" -> <<"N", "a", "N">>
    [] v.k = "num" -> IF v.n < 0 THEN <<"-">> \o NatToStr(-v.n) ELSE NatToStr(v.n)
    [] v.k = "arr" -> JoinStr(v.e)
    [] OTHER -> <<"[", "o", "b", "j", "e", "c", "t", " ", "O", "b", "j", "e", "c", "t", "]">>

\* Array.prototype.join(","): undefined and null elements give the empty string
JoinStr(e) ==
  IF e = <<>> THEN <<>>
  ELSE LET h == IF IsNullish(Head(e)) THEN <<>> ELSE ToStr(Head(e))
       IN IF Len(e) = 1 THEN h ELSE h \o <<",">> \o JoinStr(Tail(e))

RECURSIVE DigitsValue(_)
DigitsValue(s) ==
  IF s = <<>> THEN 0 ELSE 10 * DigitsValue(SubSeq(s, 1, Len(s) - 1)) + DigitValue(s[Len(s)])

AllDigits(s) == s # <<>> /\ \A i \in 1..Len(s) : IsDigit(s[i])

\* ToNumber of a string: surrounding white space is ignored, the empty string
\* is 0, an optionally signed run of digits is its value, anything else NaN
\* (the alphabet of the model has no ".", no exponent and no radix prefix).
StrToNumber(s) ==
  LET t == trim(s)
  IN CASE t = <<>> -> Num(0)
       [] AllDigits(t) -> Num(DigitsValue(t))
       [] Len(t) > 1 /\ Head(t) = "-" /\ AllDigits(Tail(t)) -> Num(-DigitsValue(Tail(t)))
       [] OTHER -> NaN

\* ToNumber (Number(v) and the coercion of the arithmetic operators)
ToNumber(v) ==
  CASE v.k = "undefined" -> NaN
    [] v.k = "null" -> Num(0)
    [] v.k = "bool" -> IF v.b THEN Num(1) ELSE Num(0)
    [] v.k \in {"num", "nan"} -> v
    [] v.k = "str" -> StrToNumber(v.s)
    [] v.k = "arr" -> StrToNumber(ToStr(v))
    [] OTHER -> NaN

RatLess(x, y) == x.n * y.d < y.n * x.d

RECURSIVE StrLess(_, _)
\* lexicographic comparison of two strings by code unit
StrLess(s, t) ==
  CASE t = <<>> -> FALSE
    [] s = <<>> -> TRUE
    [] CharCode(Head(s)) # CharCode(Head(t)) -> CharCode(Head(s)) < CharCode(Head(t))
    [] OTHER -> StrLess(Tail(s), Tail(t))

RECURSIVE PrimitiveThrows(_)
\* does converting v to a primitive (ToPrimitive, ToString, ToNumber) throw?
\* Array.prototype.join converts every element that is not undefined or null.
PrimitiveThrows(v) ==
  CASE v.k = "obj" -> ~v.prim
    [] v.k = "arr" -> \E i \in 1..Len(v.e) : ~IsNullish(v.e[i]) /\ PrimitiveThrows(v.e[i])
    [] OTHER -> FALSE

\* ToPrimitive with hint number: arrays and plain objects become strings
ToPrimitive(v) == IF v.k \in {"arr", "obj"} THEN Str(ToStr(v)) ELSE v

\* the abstract relational comparison: "lt", "eq", "gt" or "undefined" (a NaN operand)
Compare(a, b) ==
  LET pa == ToPrimitive(a)
      pb == ToPrimitive(b)
  IN IF IsString(pa) /\ IsString(pb)
     THEN CASE StrLess(pa.s, pb.s) -> "lt"
            [] StrLess(pb.s, pa.s) -> "gt"
            [] OTHER -> "eq"
     ELSE LET x == ToNumber(pa)
              y == ToNumber(pb)
          IN CASE x.k = "nan" \/ y.k = "nan" -> "undefined"
               [] RatLess(x, y) -> "lt"
               [] RatLess(y, x) -> "gt"
               [] OTHER -> "eq"

\* a < b, a <= b, a >= b
JSLess(a, b) == Compare(a, b) = "lt"
JSLessEq(a, b) == Compare(a, b) \in {"lt", "eq"}
JSGreaterEq(a, b) == Compare(a, b) \in {"gt", "eq"}

\* a * b
JSMul(a, b) ==
  LET x == ToNumber(a)
      y == ToNumber(b)
  IN IF x.k = "nan" \/ y.k = "nan" THEN NaN ELSE Rat(x.n * y.n, x.d * y.d)

\* v.length: the length of a string or an array, undefined on anything else
LengthOf(v) ==
  CASE v.k = "str" -> Num(Len(v.s))
    [] v.k = "arr" -> Num(Len(v.e))
    [] OTHER -> Undefined

\* Array.prototype.includes
ArrayIncludes(e, x) == \E i \in 1..Len(e) : SameValueZero(e[i], x)

\* does the call v.includes(x) throw? v has an includes method only when it
\* is an array or a string, and String.prototype.includes converts x to a string
IncludesThrows(v, x) == v.k \notin {"arr", "str"} \/ (v.k = "str" /\ PrimitiveThrows(x))

\* v.includes(x) on an array or a string
Includes(v, x) ==
  IF IsArray(v) THEN ArrayIncludes(v.e, x) ELSE StringIncludes(v.s, ToStr(x))

\* the elements new Set(v) iterates over: the elements of an array, the
\* characters of a string, nothing for undefined and null
IterableElements(v) ==
  CASE v.k = "arr" -> v.e
    [] v.k = "str" -> [i \in 1..Len(v.s) |-> Str(<<v.s[i]>>)]
    [] OTHER -> <<>>

\* new Set(v) throws a TypeError when v is neither nullish nor iterable
SetThrows(v) == v.k \notin {"arr", "str", "undefined", "null"}

RECURSIVE Distinct(_)
\* the elements of a Set built from e, in insertion order, duplicates
\* (by SameValueZero) dropped
Distinct(e) ==
  IF e = <<>> THEN <<>>
  ELSE LET r == Distinct(SubSeq(e, 1, Len(e) - 1))
           x == e[Len(e)]
       IN IF ArrayIncludes(r, x) THEN r ELSE Append(r, x)


(***************************************************************************)
(* QuestionType (src/unnamed/part_001) and the results of a call.          *)
(***************************************************************************)
SINGLE_CHOICE == Str(<<"s", "i", "n", "g", "l", "e", "_", "c", "h", "o", "i", "c", "e">>)
MULTI_CHOICE == Str(<<"m", "u", "l", "t", "i", "_", "c", "h", "o", "i", "c", "e">>)
NUMBER == Str(<<"n", "u", "m", "b", "e", "r">>)
TEXT == Str(<<"t", "e", "x", "t">>)

\* Object.values(QuestionType)
QuestionType == <<SINGLE_CHOICE, MULTI_CHOICE, NUMBER, TEXT>>

\* a call either returns a value or throws (a TypeError, in this program)
Return(v) == [k |-> "return", v |-> v]
Throw == [k |-> "throw"]
NotCalled == [k |-> "none"]

(***************************************************************************)
(* validateQuestion (src/src/app.ts:21-82).                                *)
(***************************************************************************)
\* line 24: question.text.trim is called when text is truthy, and only a
\* string has a trim method
TextThrows(q) == Truthy(q.text) /\ ~IsString(q.text)

TextErrors(q) ==
  IF ~Truthy(q.text) \/ Len(trim(q.text.s)) = 0
  THEN <<"Question text is required">> ELSE <<>>

\* line 28
TypeErrors(q) ==
  IF ~Truthy(q.type) \/ ~ArrayIncludes(QuestionType, q.type)
  THEN <<"Invalid question type">> ELSE <<>>

\* line 32: points <= 0 converts points to a primitive
PointsThrows(q) == Truthy(q.points) /\ PrimitiveThrows(q.points)

PointsErrors(q) ==
  IF ~Truthy(q.points) \/ JSLessEq(q.points, Num(0))
  THEN <<"Points must be greater than 0">> ELSE <<>>

\* lines 37-45
SingleChoiceThrows(q) ==
  /\ Truthy(q.options)
  /\ Truthy(q.correctOption)
  /\ IncludesThrows(q.options, q.correctOption)

SingleChoiceErrors(q) ==
  (IF ~Truthy(q.correctOption)
   THEN <<"correctOption is required for single_choice type">> ELSE <<>>)
  \o
  (IF Truthy(q.options) /\ Truthy(q.correctOption) /\ ~Includes(q.options, q.correctOption)
   THEN <<"correctOption must be in options list">> ELSE <<>>)

\* lines 47-59: correctOptions.filter exists only on an array, and its
\* callback calls options.includes once per entry
MultiChoiceThrows(q) ==
  /\ Truthy(q.options)
  /\ Truthy(q.correctOptions)
  /\ \/ ~IsArray(q.correctOptions)
     \/ \E i \in 1..Len(q.correctOptions.e) : IncludesThrows(q.options, q.correctOptions.e[i])

MultiChoiceErrors(q) ==
  (IF ~Truthy(q.correctOptions) \/ StrictEquals(LengthOf(q.correctOptions), Num(0))
   THEN <<"correctOptions is required for multi_choice type">> ELSE <<>>)
  \o
  (IF /\ Truthy(q.options)
      /\ Truthy(q.correctOptions)
      /\ LET invalidOptions ==
               {i \in 1..Len(q.correctOptions.e) : ~Includes(q.options, q.correctOptions.e[i])}
         IN Cardinality(invalidOptions) > 0
   THEN <<"All correctOptions must be in options list">> ELSE <<>>)

\* lines 61-72: max < min converts both operands to primitives
NumberThrows(q) ==
  /\ ~StrictEquals(q.min, Undefined)
  /\ ~StrictEquals(q.max, Undefined)
  /\ (PrimitiveThrows(q.max) \/ PrimitiveThrows(q.min))

NumberErrors(q) ==
  (IF StrictEquals(q.min, Undefined) \/ StrictEquals(q.min, Null)
   THEN <<"min is required for number type">> ELSE <<>>)
  \o
  (IF StrictEquals(q.max, Undefined) \/ StrictEquals(q.max, Null)
   THEN <<"max is required for number type">> ELSE <<>>)
  \o
  (IF /\ ~StrictEquals(q.min, Undefined)
      /\ ~StrictEquals(q.max, Undefined)
      /\ JSLess(q.max, q.min)
   THEN <<"max must be greater than or equal to min">> ELSE <<>>)

\* lines 74-78
KeywordsErrors(q) ==
  IF ~Truthy(q.keywords) \/ StrictEquals(LengthOf(q.keywords), Num(0))
  THEN <<"keywords are required for text type">> ELSE <<>>

\* the switch of line 36
VariantThrows(q) ==
  CASE StrictEquals(q.type, SINGLE_CHOICE) -> SingleChoiceThrows(q)
    [] StrictEquals(q.type, MULTI_CHOICE) -> MultiChoiceThrows(q)
    [] StrictEquals(q.type, NUMBER) -> NumberThrows(q)
    [] OTHER -> FALSE

VariantErrors(q) ==
  CASE StrictEquals(q.type, SINGLE_CHOICE) -> SingleChoiceErrors(q)
    [] StrictEquals(q.type, MULTI_CHOICE) -> MultiChoiceErrors(q)
    [] StrictEquals(q.type, NUMBER) -> NumberErrors(q)
    [] StrictEquals(q.type, TEXT) -> KeywordsErrors(q)
    [] OTHER -> <<>>

validateQuestion(q) ==
  IF TextThrows(q) \/ PointsThrows(q) \/ VariantThrows(q)
  THEN Throw
  ELSE Return(TextErrors(q) \o TypeErrors(q) \o PointsErrors(q) \o VariantErrors(q))

(***************************************************************************)
(* calculateScore (src/src/app.ts:88-130).                                 *)
(***************************************************************************)
\* x || []
OrEmptyArray(x) == IF Truthy(x) THEN x ELSE Arr(<<>>)

\* a comparison that ignores case, in place of ===
ScoreSingleChoiceIgnoringCase(q, a) ==
  Return(IF /\ IsString(a)
            /\ IsString(q.correctOption)
            /\ toLowerCase(a.s) = toLowerCase(q.correctOption.s)
         THEN q.points ELSE Num(0))

\* lines 90-91
ScoreSingleChoice(q, a) ==
  Return(IF StrictEquals(a, q.correctOption) THEN q.points ELSE Num(0))

\* the answer is not made a Set: every entry of it that is correct counts
ScoreMultiChoiceCountingEntries(q, a) ==
  IF ~IsArray(a) THEN Return(Num(0))
  ELSE IF SetThrows(OrEmptyArray(q.correctOptions)) THEN Throw
  ELSE LET correctSet == Distinct(IterableElements(OrEmptyArray(q.correctOptions)))
           intersection == Cardinality({i \in 1..Len(a.e) : ArrayIncludes(correctSet, a.e[i])})
       IN IF Len(correctSet) = 0 THEN Return(Num(0))
          ELSE Return(JSMul(q.points, Rat(intersection, Len(correctSet))))

\* wrong entries of the answer lower the score: the matches are divided by
\* the size of the union of the two sets
ScoreMultiChoicePenalisingExtras(q, a) ==
  IF ~IsArray(a) THEN Return(Num(0))
  ELSE IF SetThrows(OrEmptyArray(q.correctOptions)) THEN Throw
  ELSE LET correctSet == Distinct(IterableElements(OrEmptyArray(q.correctOptions)))
           answerSet == Distinct(a.e)
           intersection ==
             Cardinality({i \in 1..Len(correctSet) : ArrayIncludes(answerSet, correctSet[i])})
           union == Len(Distinct(correctSet \o answerSet))
       IN IF Len(correctSet) = 0 THEN Return(Num(0))
          ELSE Return(JSMul(q.points, Rat(intersection, union)))

\* lines 93-103
ScoreMultiChoice(q, a) ==
  IF ~IsArray(a) THEN Return(Num(0))
  ELSE IF SetThrows(OrEmptyArray(q.correctOptions)) THEN Throw
  ELSE LET correctSet == Distinct(IterableElements(OrEmptyArray(q.correctOptions)))
           answerSet == Distinct(a.e)
           intersection ==
             Cardinality({i \in 1..Len(correctSet) : ArrayIncludes(answerSet, correctSet[i])})
       IN IF Len(correctSet) = 0 THEN Return(Num(0))
          ELSE Return(JSMul(q.points, Rat(intersection, Len(correctSet))))

\* the bounds are excluded: numValue > min && numValue < max
ScoreNumberExclusive(q, a) ==
  IF PrimitiveThrows(a) THEN Throw
  ELSE LET numValue == ToNumber(a)
           aboveMin == IsNullish(q.min) \/ Compare(numValue, q.min) = "gt"
           belowMax == IsNullish(q.max) \/ Compare(numValue, q.max) = "lt"
       IN CASE numValue.k = "nan" -> Return(Num(0))
            [] ~IsNullish(q.min) /\ PrimitiveThrows(q.min) -> Throw
            [] aboveMin /\ ~IsNullish(q.max) /\ PrimitiveThrows(q.max) -> Throw
            [] OTHER -> Return(IF aboveMin /\ belowMax THEN q.points ELSE Num(0))

\* lines 105-113: min ?? -Infinity and max ?? Infinity make a missing bound
\* hold for every number; numValue <= max is evaluated only when
\* numValue >= min holds
ScoreNumber(q, a) ==
  IF PrimitiveThrows(a) THEN Throw
  ELSE LET numValue == ToNumber(a)
           aboveMin == IsNullish(q.min) \/ JSGreaterEq(numValue, q.min)
           belowMax == IsNullish(q.max) \/ JSLessEq(numValue, q.max)
       IN CASE numValue.k = "nan" -> Return(Num(0))
            [] ~IsNullish(q.min) /\ PrimitiveThrows(q.min) -> Throw
            [] aboveMin /\ ~IsNullish(q.max) /\ PrimitiveThrows(q.max) -> Throw
            [] OTHER -> Return(IF aboveMin /\ belowMax THEN q.points ELSE Num(0))

\* the keyword is compared as written, without keyword.toLowerCase()
ScoreTextKeywordAsWritten(q, a) ==
  IF ~IsString(a) THEN Return(Num(0))
  ELSE LET keywords == OrEmptyArray(q.keywords)
       IN IF ~IsArray(keywords) \/ (\E i \in 1..Len(keywords.e) : ~IsString(keywords.e[i]))
          THEN Throw
          ELSE LET answerLower == toLowerCase(a.s)
                   matchedKeywords ==
                     Cardinality({i \in 1..Len(keywords.e) :
                                    StringIncludes(answerLower, keywords.e[i].s)})
                   len == IF IsNullish(q.keywords) THEN Undefined ELSE LengthOf(q.keywords)
                   totalKeywords == IF Truthy(len) THEN len ELSE Num(1)
               IN Return(JSMul(q.points, Rat(matchedKeywords, totalKeywords.n)))

\* the answer is searched as written, without answer.toLowerCase()
ScoreTextAnswerAsWritten(q, a) ==
  IF ~IsString(a) THEN Return(Num(0))
  ELSE LET keywords == OrEmptyArray(q.keywords)
       IN IF ~IsArray(keywords) \/ (\E i \in 1..Len(keywords.e) : ~IsString(keywords.e[i]))
          THEN Throw
          ELSE LET matchedKeywords ==
                     Cardinality({i \in 1..Len(keywords.e) :
                                    StringIncludes(a.s, toLowerCase(keywords.e[i].s))})
                   len == IF IsNullish(q.keywords) THEN Undefined ELSE LengthOf(q.keywords)
                   totalKeywords == IF Truthy(len) THEN len ELSE Num(1)
               IN Return(JSMul(q.points, Rat(matchedKeywords, totalKeywords.n)))

\* lines 115-125: (keywords || []).filter exists only on an array, and
\* keyword.toLowerCase only on a string
ScoreText(q, a) ==
  IF ~IsString(a) THEN Return(Num(0))
  ELSE LET keywords == OrEmptyArray(q.keywords)
       IN IF ~IsArray(keywords) \/ (\E i \in 1..Len(keywords.e) : ~IsString(keywords.e[i]))
          THEN Throw
          ELSE LET answerLower == toLowerCase(a.s)
                   matchedKeywords ==
                     Cardinality({i \in 1..Len(keywords.e) :
                                    StringIncludes(answerLower, toLowerCase(keywords.e[i].s))})
                   len == IF IsNullish(q.keywords) THEN Undefined ELSE LengthOf(q.keywords)
                   totalKeywords == IF Truthy(len) THEN len ELSE Num(1)
               IN Return(JSMul(q.points, Rat(matchedKeywords, totalKeywords.n)))

calculateScore(q, a) ==
  CASE StrictEquals(q.type, SINGLE_CHOICE) -> ScoreSingleChoice(q, a)
    [] StrictEquals(q.type, MULTI_CHOICE) -> ScoreMultiChoice(q, a)
    [] StrictEquals(q.type, NUMBER) -> ScoreNumber(q, a)
    [] StrictEquals(q.type, TEXT) -> ScoreText(q, a)
    [] OTHER -> Return(Num(0))

(***************************************************************************)
(* The request bodies offered to the two functions.                        *)
(***************************************************************************)
\* all sequences over S of length at most n
SeqsUpTo(S, n) == UNION {[1..m -> S] : m \in 0..n}

OptionNames == {Str(<<"a">>), Str(<<"b">>)}

KeywordNames == {Str(<<"a">>), Str(<<"B">>), Str(<<"a", "b">>)}

OptionLists == {Arr(e) : e \in SeqsUpTo(OptionNames, MaxList)}

KeywordLists == {Arr(e) : e \in SeqsUpTo(KeywordNames, MaxList)}

Numbers == {Num(i) : i \in -1..MaxNum}

\* text: absent, empty, blank, present, and not a string
Texts == {Undefined, Str(<<>>), Str(<<" ">>), Str(<<"Q">>), Num(5)}

\* type: absent, the four variants, and an unknown one
Types == {Undefined, SINGLE_CHOICE, MULTI_CHOICE, NUMBER, TEXT, Str(<<"e", "s", "s", "a", "y">>)}

\* points: absent, numbers, and a string that is not a number
PointsValues == {Undefined, Str(<<"a", "b", "c">>)} \cup {Num(i) : i \in -1..MaxPoints}

NoVariantFields ==
  [options |-> Undefined, correctOption |-> Undefined, correctOptions |-> Undefined,
   min |-> Undefined, max |-> Undefined, keywords |-> Undefined]

SingleChoiceFields ==
  {[NoVariantFields EXCEPT !.options = o, !.correctOption = c] :
     o \in {Undefined, Num(7)} \cup OptionLists,
     c \in {Undefined, Str(<<>>), Str(<<"a">>), Str(<<"A">>), Str(<<"4">>)}}

MultiChoiceFields ==
  {[NoVariantFields EXCEPT !.options = o, !.correctOptions = c] :
     o \in {Undefined, Num(7)} \cup OptionLists,
     c \in {Undefined, Num(5), Str(<<"a", "b">>)} \cup OptionLists}

NumberFields ==
  {[NoVariantFields EXCEPT !.min = lo, !.max = hi] :
     lo \in {Undefined, Null} \cup Numbers,
     hi \in {Undefined, Null} \cup Numbers}

TextFields ==
  {[NoVariantFields EXCEPT !.keywords = kw] :
     kw \in {Undefined, Str(<<"a", "b">>), Arr(<<Num(1)>>)} \cup KeywordLists}

VariantFields == SingleChoiceFields \cup MultiChoiceFields \cup NumberFields \cup TextFields

\* a question draft of the body of POST /api/jobs: any text, type and points,
\* carrying the fields of one variant (not necessarily the one of its type)
Drafts ==
  {[text |-> t, type |-> ty, points |-> p,
    options |-> f.options, correctOption |-> f.correctOption,
    correctOptions |-> f.correctOptions, min |-> f.min, max |-> f.max,
    keywords |-> f.keywords] :
     t \in Texts, ty \in Types, p \in PointsValues, f \in VariantFields}

AnswerNames == OptionNames \cup {Str(<<"c">>)}

\* an answer value of the body of POST /api/applications
Answers ==
  {Undefined, Null, Bool(TRUE), Obj, ObjNoPrimitive}
  \cup {Num(i) : i \in -2..(MaxNum + 1)}
  \cup {Num(4), Str(<<>>), Str(<<"a">>), Str(<<"A">>), Str(<<"4">>), Str(<<" ", "1">>),
        Str(<<"a", "b">>), Str(<<"c", "A", "b">>), Str(<<"b", "a">>), Str(<<"c">>)}
  \cup {Arr(e) : e \in SeqsUpTo(AnswerNames, MaxAnswer)}
  \cup {Arr(<<Num(1)>>), Arr(<<>>)}

(***************************************************************************)
(* The two functions applied as the handlers apply them: a draft is        *)
(* validated (POST /api/jobs, app.ts:182-189), and a question whose        *)
(* validation returned no error is scored against an answer                *)
(* (POST /api/applications, app.ts:279-281).                               *)
(***************************************************************************)
\* the HTTP server after app.listen (server.ts:5): it accepts connections,
\* has none yet (busy are those with a request being served), no callback
\* waits for its 'close' event, and it has not emitted it
Listening ==
  [listening |-> TRUE, connections |-> {}, busy |-> {},
   closeListeners |-> <<>>, closed |-> FALSE]

Init ==
  /\ question \in Drafts
  /\ answer = Undefined
  /\ errors = NotCalled
  /\ score = NotCalled
  /\ pc = "draft"
  /\ jobsStore = <<>>
  /\ applicationsStore = <<>>
  /\ request = NotCalled
  /\ response = NotCalled
  /\ nextId = 1
  /\ inflight = <<>>
  /\ served = <<>>
  /\ server = Listening
  /\ exitCode = NotCalled

Validate ==
  /\ pc = "draft"
  /\ errors' = validateQuestion(question)
  /\ pc' = "validated"
  /\ UNCHANGED <<question, answer, score>>
  /\ UNCHANGED appVars
  /\ UNCHANGED hostVars

Score ==
  /\ pc = "validated"
  /\ errors = Return(<<>>)
  /\ \E a \in Answers :
       /\ answer' = a
       /\ score' = calculateScore(question, a)
  /\ pc' = "scored"
  /\ UNCHANGED <<question, errors>>
  /\ UNCHANGED appVars
  /\ UNCHANGED hostVars

Next == Validate \/ Score

Spec == Init /\ [][Next]_vars

(***************************************************************************)
(* The rules of the validator as the specification states them (section    *)
(* 4.1 and the data model of section 3), used to state the claims.         *)
(***************************************************************************)
Present(v) == ~IsNullish(v)

\* text is a string with a character that is not white space
RuleText(q) == IsString(q.text) /\ \E i \in 1..Len(q.text.s) : ~IsSpace(q.text.s[i])

RuleType(q) == \E i \in 1..Len(QuestionType) : q.type = QuestionType[i]

\* points is a number greater than 0
RulePoints(q) == q.points.k = "num" /\ q.points.n > 0

\* a non-empty list
NonEmptyList(v) == IsArray(v) /\ Len(v.e) > 0

ListHas(v, x) == IsArray(v) /\ \E i \in 1..Len(v.e) : v.e[i] = x

RuleCorrectOptionPresent(q) == IsString(q.correctOption) /\ q.correctOption.s # <<>>

RuleCorrectOptionInOptions(q) ==
  (Present(q.options) /\ RuleCorrectOptionPresent(q)) => ListHas(q.options, q.correctOption)

RuleCorrectOptionsPresent(q) == NonEmptyList(q.correctOptions)

RuleCorrectOptionsInOptions(q) ==
  (Present(q.options) /\ IsArray(q.correctOptions)) =>
     \A i \in 1..Len(q.correctOptions.e) : ListHas(q.options, q.correctOptions.e[i])

RuleMinPresent(q) == Present(q.min)

RuleMaxPresent(q) == Present(q.max)

\* if both are present, max >= min
RuleMaxNotBelowMin(q) ==
  (Present(q.min) /\ Present(q.max)) =>
     (q.min.k = "num" /\ q.max.k = "num" /\ ~RatLess(q.max, q.min))

RuleKeywordsPresent(q) == NonEmptyList(q.keywords)

\* the messages section 4.1 asks for, in the order it lists the rules
ExpectedVariantErrors(q) ==
  CASE q.type = SINGLE_CHOICE ->
         (IF RuleCorrectOptionPresent(q) THEN <<>>
          ELSE <<"correctOption is required for single_choice type">>)
         \o (IF RuleCorrectOptionInOptions(q) THEN <<>>
             ELSE <<"correctOption must be in options list">>)
    [] q.type = MULTI_CHOICE ->
         (IF RuleCorrectOptionsPresent(q) THEN <<>>
          ELSE <<"correctOptions is required for multi_choice type">>)
         \o (IF RuleCorrectOptionsInOptions(q) THEN <<>>
             ELSE <<"All correctOptions must be in options list">>)
    [] q.type = NUMBER ->
         (IF RuleMinPresent(q) THEN <<>> ELSE <<"min is required for number type">>)
         \o (IF RuleMaxPresent(q) THEN <<>> ELSE <<"max is required for number type">>)
         \o (IF RuleMaxNotBelowMin(q) THEN <<>>
             ELSE <<"max must be greater than or equal to min">>)
    [] q.type = TEXT ->
         (IF RuleKeywordsPresent(q) THEN <<>> ELSE <<"keywords are required for text type">>)
    [] OTHER -> <<>>

ExpectedErrors(q) ==
  (IF RuleText(q) THEN <<>> ELSE <<"Question text is required">>)
  \o (IF RuleType(q) THEN <<>> ELSE <<"Invalid question type">>)
  \o (IF RulePoints(q) THEN <<>> ELSE <<"Points must be greater than 0">>)
  \o ExpectedVariantErrors(q)

SatisfiesRules(q) == ExpectedErrors(q) = <<>>

Has(list, msg) == \E i \in 1..Len(list) : list[i] = msg

(***************************************************************************)
(* Claims.                                                                 *)
(***************************************************************************)

\* C1: for every question that validateQuestion accepted and every answer
\* value, the value calculateScore returns is a number r with
\* 0 <= r <= question.points (r is compared with points when points is a
\* number; a value that is not a number, NaN included, is out of range).
C1_ScoreWithinPoints ==
  (pc = "scored" /\ score.k = "return") =>
     /\ score.v.k = "num"
     /\ score.v.n >= 0
     /\ question.points.k = "num" => ~RatLess(question.points, score.v)

\* C2: calculateScore never throws: for every question that validateQuestion
\* accepted and every answer value it returns a number.
C2_ScoreNeverThrows ==
  pc = "scored" => (score.k = "return" /\ IsNumber(score.v))

\* C3: validateQuestion is total: for every draft, whatever the types of its
\* fields, it returns a list of messages and never throws.
C3_ValidateNeverThrows ==
  pc = "validated" => errors.k = "return"

\* C4: validateQuestion returns the empty list if and only if the question
\* satisfies every rule of section 4.1.
C4_EmptyIffRulesHold ==
  pc = "validated" => (errors = Return(<<>>) <=> SatisfiesRules(question))

\* C5: the list validateQuestion returns has exactly one message per violated
\* rule, in the order text, type, points, then the rules of the variant.
C5_OneMessagePerViolatedRule ==
  (pc = "validated" /\ errors.k = "return") => errors.v = ExpectedErrors(question)

\* C6: for a Number question, "max must be greater than or equal to min" is
\* reported only when min and max are both present and max < min, and each
\* missing-field message exactly when its field is undefined or null.
C6_NumberMessages ==
  (pc = "validated" /\ errors.k = "return" /\ question.type = NUMBER) =>
     /\ Has(errors.v, "max must be greater than or equal to min")
          <=> /\ Present(question.min)
              /\ Present(question.max)
              /\ JSLess(question.max, question.min)
     /\ Has(errors.v, "min is required for number type") <=> ~Present(question.min)
     /\ Has(errors.v, "max is required for number type") <=> ~Present(question.max)

\* C7: for a SingleChoice question, calculateScore returns question.points
\* when the answer is a string with exactly the characters of correctOption
\* (same case), and 0 for every other answer value.
C7_SingleChoiceExactMatch ==
  (pc = "scored" /\ question.type = SINGLE_CHOICE) =>
     score = Return(IF /\ IsString(answer)
                       /\ IsString(question.correctOption)
                       /\ answer.s = question.correctOption.s
                    THEN question.points ELSE Num(0))

\* a correct answer to a SingleChoice question has earned its points
C7_Witness ==
  /\ pc = "scored"
  /\ question.type = SINGLE_CHOICE
  /\ IsString(answer)
  /\ answer = question.correctOption
  /\ question.points.k = "num"
  /\ score = Return(question.points)

\* the distinct entries of a list
EntrySet(v) == {v.e[i] : i \in 1..Len(v.e)}

ExtraEntries == AnswerNames \cup {Num(1), Null}

C10_NumberInclusiveRange ==
  (/\ pc = "scored"
   /\ question.type = NUMBER
   /\ question.min.k = "num"
   /\ question.max.k = "num"
   /\ answer.k = "num") =>
     score = Return(IF /\ question.min.n * answer.d <= answer.n * question.min.d
                       /\ answer.n * question.max.d <= question.max.n * answer.d
                    THEN question.points ELSE Num(0))

\* an answer equal to min, below max, has earned the points
C10_Witness ==
  /\ pc = "scored"
  /\ question.type = NUMBER
  /\ question.min.k = "num"
  /\ question.max.k = "num"
  /\ answer = question.min
  /\ RatLess(question.min, question.max)
  /\ question.points.k = "num"
  /\ score = Return(question.points)

\* a string that denotes a number: an optionally signed run of digits,
\* possibly surrounded by white space
DenotesNumber(s) ==
  LET t == trim(s)
  IN \/ AllDigits(t)
     \/ Len(t) > 1 /\ Head(t) = "-" /\ AllDigits(Tail(t))

\* neither a number nor a string denoting a number
NonNumeric(v) == v.k # "num" /\ ~(IsString(v) /\ DenotesNumber(v.s))

\* C11: for a Number question, an answer value that is neither a number nor
\* a string denoting a number earns 0, whatever min and max are.
C11_NonNumericEarnsZero ==
  (/\ pc = "scored"
   /\ question.type = NUMBER
   /\ question.points.k = "num"
   /\ score.k = "return"
   /\ NonNumeric(answer)) => score = Return(Num(0))

\* sub occurs in s: some run of consecutive characters of s spells sub
OccursIn(sub, s) ==
  \E off \in 0..Len(s) :
     /\ off + Len(sub) <= Len(s)
     /\ \A j \in 1..Len(sub) : s[off + j] = sub[j]

\* the keyword entries (by position) that the answer matches, both lower-cased
MatchedKeywords(q, a) ==
  {i \in 1..Len(q.keywords.e) :
     OccursIn([j \in 1..Len(q.keywords.e[i].s) |-> LowerChar(q.keywords.e[i].s[j])],
              [j \in 1..Len(a.s) |-> LowerChar(a.s[j])])}

\* keywords is a list of strings
KeywordsAreStrings(q) ==
  IsArray(q.keywords) /\ \A i \in 1..Len(q.keywords.e) : IsString(q.keywords.e[i])

\* C12: for a Text question, calculateScore returns 0 when the answer is not
\* a string, and otherwise points * m / n, n the number of keyword entries
\* and m the number of entries whose lower-cased form occurs in the
\* lower-cased answer.
C12_TextKeywordCoverage ==
  (/\ pc = "scored"
   /\ question.type = TEXT
   /\ KeywordsAreStrings(question)
   /\ question.points.k = "num") =>
     IF ~IsString(answer) THEN score = Return(Num(0))
     ELSE score = Return(Rat(question.points.n * Cardinality(MatchedKeywords(question, answer)),
                             question.points.d * Len(question.keywords.e)))

\* an answer that matches some but not all of the keywords has earned a part
\* of the points
C12_Witness ==
  /\ pc = "scored"
  /\ question.type = TEXT
  /\ KeywordsAreStrings(question)
  /\ IsString(answer)
  /\ MatchedKeywords(question, answer) # {}
  /\ Cardinality(MatchedKeywords(question, answer)) < Len(question.keywords.e)
  /\ question.points.k = "num"
  /\ score.k = "return"
  /\ score.v.k = "num"
  /\ score.v.n > 0
  /\ RatLess(score.v, question.points)

StringAnswers == {a \in Answers : IsString(a)}

\* C13: for a Text question and string answers a1, a2 such that every keyword
\* a1 matches is matched by a2, calculateScore(q, a1) <= calculateScore(q, a2).
C13_TextMonotone ==
  (/\ pc = "scored"
   /\ question.type = TEXT
   /\ KeywordsAreStrings(question)
   /\ question.points.k = "num"
   /\ IsString(answer)) =>
     \A a2 \in StringAnswers :
        MatchedKeywords(question, answer) \subseteq MatchedKeywords(question, a2) =>
           LET s2 == calculateScore(question, a2)
           IN /\ score.k = "return"
              /\ s2.k = "return"
              /\ score.v.k = "num"
              /\ s2.v.k = "num"
              /\ ~RatLess(s2.v, score.v)

\* some other answer matches strictly more keywords and scores strictly more
C13_Witness ==
  /\ pc = "scored"
  /\ question.type = TEXT
  /\ KeywordsAreStrings(question)
  /\ question.points.k = "num"
  /\ IsString(answer)
  /\ score.k = "return"
  /\ \E a2 \in StringAnswers :
        /\ MatchedKeywords(question, answer) \subseteq MatchedKeywords(question, a2)
        /\ MatchedKeywords(question, answer) # MatchedKeywords(question, a2)
        /\ RatLess(score.v, calculateScore(question, a2).v)

(***************************************************************************)
(* The HTTP API (src/src/app.ts:135-381): the handlers of POST /api/jobs,  *)
(* POST /api/applications and of the four GET routes, with the two Maps    *)
(* they share.  A Map keeps its entries in insertion order, so a store is  *)
(* the sequence of its values.  A handler runs to completion once its      *)
(* request is dispatched (it contains no await), so a request is one step. *)
(* Of the fields of a job that are only stored and echoed (title,          *)
(* location, customer, jobName, description, createdAt) the model keeps    *)
(* title; of those of an application (candidateName, candidateEmail) it    *)
(* keeps candidateName.                                                    *)
(***************************************************************************)
\* a job offered to POST /api/jobs has at most MaxQuestions questions
MaxQuestions == 2
\* an application offered to POST /api/applications has at most MaxEntries answers
MaxEntries == 2
\* the job store holds at most MaxJobs jobs
MaxJobs == 1
\* the application store holds at most MaxApps applications
MaxApps == 2

coreVars == <<question, answer, errors, score, pc>>

\* the n-th identifier uuidv4() returns: the calls return pairwise different
\* well-formed UUIDs
Uuid(n) == Str(<<"u">> \o NatToStr(n))

\* the isUUID() validator
isUUID(v) == IsString(v) /\ Len(v.s) > 1 /\ Head(v.s) = "u" /\ AllDigits(Tail(v.s))

\* the chain trim().notEmpty(): an absent field counts as the empty string
notEmpty(v) == ~IsNullish(v) /\ Len(trim(ToStr(v))) > 0

\* Map.prototype.set(entry.id, entry): the value of an existing key is
\* replaced in place, a new key is added at the end
MapSet(store, entry) ==
  IF \E i \in 1..Len(store) : store[i].id = entry.id
  THEN [i \in 1..Len(store) |-> IF store[i].id = entry.id THEN entry ELSE store[i]]
  ELSE Append(store, entry)

\* Map.prototype.has and Map.prototype.get (used once has holds)
MapHas(store, id) == \E i \in 1..Len(store) : store[i].id = id
MapGet(store, id) == store[CHOOSE i \in 1..Len(store) : store[i].id = id]

\* the responses of handleValidationErrors (lines 146-149) and of the error
\* handler (lines 370-380), and the 404 responses
ValidationFailed(details) ==
  [status |-> 400, body |-> [error |-> "Validation failed", details |-> details]]
InternalError == [status |-> 500, body |-> [error |-> "Internal server error"]]
NotFound(what) == [status |-> 404, body |-> [error |-> what]]
Json(status, body) == [status |-> status, body |-> body]

\* the client's id is kept when the draft carries one
WithIdUnlessGiven(q, id) ==
  [f \in DOMAIN q \cup {"id"} |-> IF f = "id" /\ "id" \notin DOMAIN q THEN id ELSE q[f]]

\* { ...q, id }: the question with its id set, whatever id the draft carried
WithId(q, id) == [f \in DOMAIN q \cup {"id"} |-> IF f = "id" THEN id ELSE q[f]]

RECURSIVE QuestionErrorsFrom(_, _)
\* lines 181-185, from the question at position idx on, results[i] being
\* the list validateQuestion returned for question i: the message
\* `Question ${idx + 1}: ${err}` (idx counting from 0 there) is the pair of
\* its 1-based position and the validator's message
QuestionErrorsFrom(results, idx) ==
  IF idx > Len(results) THEN <<>>
  ELSE [j \in 1..Len(results[idx].v) |-> [question |-> idx, message |-> results[idx].v[j]]]
       \o QuestionErrorsFrom(results, idx + 1)

\* the outcome of a POST that stores nothing, and of one that stores the
\* entity it answers 201 with, drawing ids identifiers from uuidv4
Rejected(answered) == [response |-> answered, stored |-> <<>>, ids |-> 0]
Accepted(entity, ids) == [response |-> Json(201, entity), stored |-> <<entity>>, ids |-> ids]

\* the job is stored although its questions have errors: the check of
\* questionErrors.length (line 187) is left out
createValidatedJobSkippingErrors(dto, results, id) ==
  IF \E i \in 1..Len(results) : results[i].k = "throw"
  THEN Rejected(InternalError)
  ELSE Accepted([id |-> Uuid(id), title |-> dto.title,
                 questions |-> [i \in 1..Len(results) |->
                                  WithId(dto.questions.e[i], Uuid(id + i))]],
                1 + Len(results))

\* lines 179-206, results[i] being the outcome of validateQuestion on
\* question i: a throw ends the forEach and is answered 500; any error is
\* answered 400; else the job is built, stored and answered 201
createValidatedJob(dto, results, id) ==
  CASE \E i \in 1..Len(results) : results[i].k = "throw" ->
         Rejected(InternalError)
    [] \E i \in 1..Len(results) : results[i].v # <<>> ->
         Rejected(ValidationFailed(QuestionErrorsFrom(results, 1)))
    [] OTHER ->
         Accepted([id |-> Uuid(id), title |-> dto.title,
                   questions |-> [i \in 1..Len(results) |->
                                    WithId(dto.questions.e[i], Uuid(id + i))]],
                  1 + Len(results))

\* the handler of POST /api/jobs met in a state where uuidv4 has handed out
\* id - 1 identifiers: its response, the job it stores (if any) and the
\* number of identifiers it draws
createJob(dto, id) ==
  LET fieldErrors ==
        (IF notEmpty(dto.title) THEN <<>> ELSE <<"Title is required">>)
        \o (IF IsArray(dto.questions) /\ Len(dto.questions.e) >= 1
            THEN <<>> ELSE <<"At least one question is required">>)
  IN IF fieldErrors # <<>>
     THEN Rejected(ValidationFailed(fieldErrors))
     ELSE createValidatedJob(
            dto,
            [i \in 1..Len(dto.questions.e) |-> validateQuestion(dto.questions.e[i])],
            id)

\* a + b: concatenation when an operand is a string, else the sum of numbers
JSAdd(a, b) ==
  LET pa == ToPrimitive(a)
      pb == ToPrimitive(b)
      x == ToNumber(pa)
      y == ToNumber(pb)
  IN CASE IsString(pa) \/ IsString(pb) -> Str(ToStr(pa) \o ToStr(pb))
       [] x.k = "nan" \/ y.k = "nan" -> NaN
       [] OTHER -> Rat(x.n * y.d + y.n * x.d, x.d * y.d)

\* Math.round(x * 100) / 100: Math.round takes the nearest integer, a half
\* going up, i.e. floor(x + 1/2)
Round2(v) ==
  LET x == JSMul(v, Num(100))
  IN IF x.k = "nan" THEN NaN ELSE Rat((2 * x.n + x.d) \div (2 * x.d), 100)

RECURSIVE SumOf(_)
\* the accumulation `total += term` over a list of terms, from total = 0
SumOf(terms) ==
  IF terms = <<>> THEN Num(0)
  ELSE JSAdd(SumOf(SubSeq(terms, 1, Len(terms) - 1)), terms[Len(terms)])

\* the elements of `of` that `among` does not have, in order (lines 261-262)
Without(of, among) == SelectSeq(of, LAMBDA x : ~ArrayIncludes(among, x))

\* the breakdown is built back to front (unshift for push), so that entry i
\* no longer belongs to answer i
createScoredApplicationPrepending(dto, scored, id, now) ==
  IF \E i \in 1..Len(scored) : scored[i].result.k = "throw"
  THEN Rejected(InternalError)
  ELSE Accepted(
         [id |-> Uuid(id),
          jobId |-> dto.jobId,
          candidateName |-> dto.candidateName,
          answers |-> dto.answers.e,
          totalScore |-> Round2(SumOf([i \in 1..Len(scored) |-> scored[i].result.v])),
          maxScore |-> Round2(SumOf([i \in 1..Len(scored) |-> scored[i].question.points])),
          scoreBreakdown |->
            [i \in 1..Len(scored) |->
               [questionId |-> scored[Len(scored) + 1 - i].question.id,
                questionText |-> scored[Len(scored) + 1 - i].question.text,
                pointsEarned |-> Round2(scored[Len(scored) + 1 - i].result.v),
                pointsPossible |-> scored[Len(scored) + 1 - i].question.points,
                answer |-> dto.answers.e[Len(scored) + 1 - i].value]],
          submittedAt |-> Num(now)],
         1)

\* lines 275-308, scored[i] being the question answer i names and the
\* outcome of calculateScore on it: a throw is answered 500; else the
\* application is built, stored and answered 201
createScoredApplication(dto, scored, id, now) ==
  IF \E i \in 1..Len(scored) : scored[i].result.k = "throw"
  THEN Rejected(InternalError)
  ELSE Accepted(
         [id |-> Uuid(id),
          jobId |-> dto.jobId,
          candidateName |-> dto.candidateName,
          answers |-> dto.answers.e,
          totalScore |-> Round2(SumOf([i \in 1..Len(scored) |-> scored[i].result.v])),
          maxScore |-> Round2(SumOf([i \in 1..Len(scored) |-> scored[i].question.points])),
          scoreBreakdown |->
            [i \in 1..Len(scored) |->
               [questionId |-> scored[i].question.id,
                questionText |-> scored[i].question.text,
                pointsEarned |-> Round2(scored[i].result.v),
                pointsPossible |-> scored[i].question.points,
                answer |-> dto.answers.e[i].value]],
          submittedAt |-> Num(now)],
         1)

\* lines 280-281: the question an answer names, with the outcome of
\* calculateScore on the two
Scored(q, value) == [question |-> q, result |-> calculateScore(q, value)]

\* lines 256-273 and the call of line 281, job being the job of dto: the
\* sets of answered and of required ids are compared, then every answer is
\* scored against the question it names
scoreApplication(dto, job, id, now) ==
  LET answers == dto.answers.e
      answeredIds == Distinct([i \in 1..Len(answers) |-> answers[i].questionId])
      requiredIds == Distinct([j \in 1..Len(job.questions) |-> job.questions[j].id])
      missingIds == Without(requiredIds, answeredIds)
      extraIds == Without(answeredIds, requiredIds)
  IN IF Len(missingIds) > 0 \/ Len(extraIds) > 0
     THEN Rejected(ValidationFailed(
            (IF Len(missingIds) > 0
             THEN <<[message |-> "Missing answers for questions", ids |-> missingIds]>>
             ELSE <<>>)
            \o (IF Len(extraIds) > 0
                THEN <<[message |-> "Invalid question IDs", ids |-> extraIds]>>
                ELSE <<>>)))
     ELSE createScoredApplication(
            dto,
            [i \in 1..Len(answers) |->
               Scored(job.questions[CHOOSE j \in 1..Len(job.questions) :
                                      job.questions[j].id = answers[i].questionId],
                      answers[i].value)],
            id, now)

\* the answers are scored against the first job of the store, not against
\* the job the submission names
submitApplicationToFirstJob(dto, jobs, id, now) ==
  LET fieldErrors ==
        (IF isUUID(dto.jobId) THEN <<>> ELSE <<"Invalid job ID">>)
        \o (IF notEmpty(dto.candidateName) THEN <<>> ELSE <<"Candidate name is required">>)
        \o (IF dto.answers.k # "undefined" THEN <<>> ELSE <<"Answers field is required">>)
  IN CASE fieldErrors # <<>> ->
            Rejected(ValidationFailed(fieldErrors))
       [] ~MapHas(jobs, dto.jobId) ->
            Rejected(NotFound("Job not found"))
       [] ~IsArray(dto.answers) \/ Len(dto.answers.e) = 0 ->
            Rejected(ValidationFailed(<<"At least one answer is required">>))
       [] OTHER ->
            scoreApplication(dto, jobs[1], id, now)

\* the answers are checked (line 252) before the job is looked up (line 246)
submitApplicationCheckingAnswersFirst(dto, jobs, id, now) ==
  LET fieldErrors ==
        (IF isUUID(dto.jobId) THEN <<>> ELSE <<"Invalid job ID">>)
        \o (IF notEmpty(dto.candidateName) THEN <<>> ELSE <<"Candidate name is required">>)
        \o (IF dto.answers.k # "undefined" THEN <<>> ELSE <<"Answers field is required">>)
  IN CASE fieldErrors # <<>> ->
            Rejected(ValidationFailed(fieldErrors))
       [] ~IsArray(dto.answers) \/ Len(dto.answers.e) = 0 ->
            Rejected(ValidationFailed(<<"At least one answer is required">>))
       [] ~MapHas(jobs, dto.jobId) ->
            Rejected(NotFound("Job not found"))
       [] OTHER ->
            scoreApplication(dto, MapGet(jobs, dto.jobId), id, now)

\* the handler of POST /api/applications met with the job store `jobs` at
\* the instant `now`, uuidv4 having handed out id - 1 identifiers: its
\* response and the application it stores (if any)
submitApplication(dto, jobs, id, now) ==
  LET fieldErrors ==
        (IF isUUID(dto.jobId) THEN <<>> ELSE <<"Invalid job ID">>)
        \o (IF notEmpty(dto.candidateName) THEN <<>> ELSE <<"Candidate name is required">>)
        \o (IF dto.answers.k # "undefined" THEN <<>> ELSE <<"Answers field is required">>)
  IN CASE fieldErrors # <<>> ->
            Rejected(ValidationFailed(fieldErrors))
       [] ~MapHas(jobs, dto.jobId) ->
            Rejected(NotFound("Job not found"))
       [] ~IsArray(dto.answers) \/ Len(dto.answers.e) = 0 ->
            Rejected(ValidationFailed(<<"At least one answer is required">>))
       [] OTHER ->
            scoreApplication(dto, MapGet(jobs, dto.jobId), id, now)

\* x put into the list r, sorted by key in descending order, before the
\* first entry whose key is smaller
InsertDescending(r, x, key) ==
  LET smaller == {i \in 1..Len(r) : RatLess(r[i][key], x[key])}
      pos == IF smaller = {} THEN Len(r) + 1
             ELSE CHOOSE i \in smaller : \A j \in smaller : i <= j
  IN SubSeq(r, 1, pos - 1) \o <<x>> \o SubSeq(r, pos, Len(r))

RECURSIVE SortDescending(_, _)
\* Array.prototype.sort with the comparator (a, b) => b[key] - a[key]: the
\* sort is stable, so entries with equal keys keep their order
SortDescending(apps, key) ==
  IF apps = <<>> THEN <<>>
  ELSE InsertDescending(SortDescending(SubSeq(apps, 1, Len(apps) - 1), key),
                        apps[Len(apps)], key)

\* the applications of every job are listed: the filter of line 330 is left
\* out
listApplicationsOfEveryJob(jobId, sortBy, jobs, apps) ==
  LET fieldErrors ==
        (IF isUUID(jobId) THEN <<>> ELSE <<"Invalid job ID">>)
        \o (IF sortBy \in {Undefined, Str(<<"s", "c", "o", "r", "e">>), Str(<<"d", "a", "t", "e">>)}
            THEN <<>> ELSE <<"Invalid sort parameter">>)
      by == IF Truthy(sortBy) THEN sortBy ELSE Str(<<"s", "c", "o", "r", "e">>)
  IN CASE fieldErrors # <<>> -> ValidationFailed(fieldErrors)
       [] ~MapHas(jobs, jobId) -> NotFound("Job not found")
       [] by = Str(<<"s", "c", "o", "r", "e">>) ->
            Json(200, Arr(SortDescending(apps, "totalScore")))
       [] OTHER -> Json(200, Arr(SortDescending(apps, "submittedAt")))

\* the handler of GET /api/jobs/:jobId/applications
listApplications(jobId, sortBy, jobs, apps) ==
  LET fieldErrors ==
        (IF isUUID(jobId) THEN <<>> ELSE <<"Invalid job ID">>)
        \o (IF sortBy \in {Undefined, Str(<<"s", "c", "o", "r", "e">>), Str(<<"d", "a", "t", "e">>)}
            THEN <<>> ELSE <<"Invalid sort parameter">>)
      by == IF Truthy(sortBy) THEN sortBy ELSE Str(<<"s", "c", "o", "r", "e">>)
      applications == SelectSeq(apps, LAMBDA a : StrictEquals(a.jobId, jobId))
  IN CASE fieldErrors # <<>> -> ValidationFailed(fieldErrors)
       [] ~MapHas(jobs, jobId) -> NotFound("Job not found")
       [] by = Str(<<"s", "c", "o", "r", "e">>) ->
            Json(200, Arr(SortDescending(applications, "totalScore")))
       [] OTHER -> Json(200, Arr(SortDescending(applications, "submittedAt")))

\* the handlers of GET /api/jobs/:id and GET /api/applications/:id
getById(id, store, invalid, missing) ==
  CASE ~isUUID(id) -> ValidationFailed(<<invalid>>)
    [] ~MapHas(store, id) -> NotFound(missing)
    [] OTHER -> Json(200, MapGet(store, id))

(***************************************************************************)
(* The requests offered to the service.                                    *)
(***************************************************************************)
\* question drafts: a single-choice and a number question the validator
\* accepts, a draft it reports two errors for, and one it throws on
QuestionPool ==
  {[NoVariantFields EXCEPT !.options = Arr(<<Str(<<"1">>), Str(<<"2">>)>>),
                           !.correctOption = Str(<<"1">>)]
     @@ [text |-> Str(<<"S">>), type |-> SINGLE_CHOICE, points |-> Rat(1, 8)],
   [NoVariantFields EXCEPT !.min = Num(0), !.max = Num(2)]
     @@ [text |-> Str(<<"N">>), type |-> NUMBER, points |-> Num(1)],
   [NoVariantFields EXCEPT !.min = Num(2), !.max = Num(0)]
     @@ [text |-> Str(<<" ">>), type |-> NUMBER, points |-> Num(1)],
   [NoVariantFields EXCEPT !.min = Num(0), !.max = Num(2)]
     @@ [text |-> Num(5), type |-> NUMBER, points |-> Num(1)]}

\* bodies of POST /api/jobs: the questions are absent or a list of drafts;
\* a blank title comes with no question list or a list of at most one draft
JobDtos ==
  {[title |-> Str(<<"T">>), questions |-> qs] :
     qs \in {Undefined} \cup {Arr(e) : e \in SeqsUpTo(QuestionPool, MaxQuestions)}}
  \cup
  {[title |-> Str(<<" ">>), questions |-> qs] :
     qs \in {Undefined} \cup {Arr(e) : e \in SeqsUpTo(QuestionPool, 1)}}

\* identifiers a request may carry where an id of `store` is expected: the
\* ids in the store, a well-formed UUID that was never handed out, and a
\* string that is no UUID
IdsFor(store) == {store[i].id : i \in 1..Len(store)} \cup {Uuid(0), Str(<<"x">>)}

\* bodies of POST /api/applications naming jobId: the answers are absent,
\* null, or a list of at most MaxEntries entries, each answering a question
\* of the job or an unknown question; a blank candidate name comes with
\* absent, null or empty answers
AppDtos(jobId, jobs) ==
  LET qids == IF MapHas(jobs, jobId)
              THEN {MapGet(jobs, jobId).questions[j].id :
                      j \in 1..Len(MapGet(jobs, jobId).questions)}
              ELSE {}
      entries == {[questionId |-> i, value |-> v] :
                    i \in qids \cup {Uuid(0)}, v \in {Str(<<"1">>), ObjNoPrimitive}}
  IN {[jobId |-> jobId, candidateName |-> Str(<<"A">>), answers |-> a] :
        a \in {Undefined, Null} \cup {Arr(e) : e \in SeqsUpTo(entries, MaxEntries)}}
     \cup
     {[jobId |-> jobId, candidateName |-> Str(<<>>), answers |-> a] :
        a \in {Undefined, Null, Arr(<<>>)}}

\* new Date() at a submission: not before the latest instant stored.  Only
\* the order of the instants matters: the first submission is at instant 0,
\* and since the latest one the clock has advanced by a tick or not at all.
Instants(apps) ==
  IF apps = <<>> THEN {0}
  ELSE {apps[Len(apps)].submittedAt.n, apps[Len(apps)].submittedAt.n + 1}

\* a request on a route, with its body or parameters
Request(route, input) == [k |-> route, input |-> input]

(***************************************************************************)
(* The service: one action per route, taken when no request is being       *)
(* served, and the delivery of the response, which ends the request.       *)
(***************************************************************************)
InitApp ==
  /\ question = Undefined
  /\ answer = Undefined
  /\ errors = NotCalled
  /\ score = NotCalled
  /\ pc = "listening"
  /\ jobsStore = <<>>
  /\ applicationsStore = <<>>
  /\ request = NotCalled
  /\ response = NotCalled
  /\ nextId = 1
  /\ inflight = <<>>
  /\ served = <<>>
  /\ server = Listening
  /\ exitCode = NotCalled

CreateJob ==
  /\ request = NotCalled
  /\ \E dto \in JobDtos :
       \E r \in {createJob(dto, nextId)} :
         /\ Len(jobsStore) + Len(r.stored) <= MaxJobs
         /\ jobsStore' = IF r.stored = <<>> THEN jobsStore
                         ELSE MapSet(jobsStore, r.stored[1])
         /\ request' = Request("POST /api/jobs", dto)
         /\ response' = r.response
         /\ nextId' = nextId + r.ids
  /\ UNCHANGED applicationsStore
  /\ UNCHANGED coreVars
  /\ UNCHANGED hostVars

SubmitApplication ==
  /\ request = NotCalled
  /\ \E jobId \in IdsFor(jobsStore) :
       \E dto \in AppDtos(jobId, jobsStore), now \in Instants(applicationsStore) :
         \E r \in {submitApplication(dto, jobsStore, nextId, now)} :
           /\ Len(applicationsStore) + Len(r.stored) <= MaxApps
           /\ applicationsStore' = IF r.stored = <<>> THEN applicationsStore
                                   ELSE MapSet(applicationsStore, r.stored[1])
           /\ request' = Request("POST /api/applications", dto)
           /\ response' = r.response
           /\ nextId' = nextId + r.ids
  /\ UNCHANGED jobsStore
  /\ UNCHANGED coreVars
  /\ UNCHANGED hostVars

ListJobs ==
  /\ request = NotCalled
  /\ request' = Request("GET /api/jobs", Undefined)
  /\ response' = Json(200, Arr(jobsStore))
  /\ UNCHANGED <<jobsStore, applicationsStore, nextId>>
  /\ UNCHANGED coreVars
  /\ UNCHANGED hostVars

GetJob ==
  /\ request = NotCalled
  /\ \E id \in IdsFor(jobsStore) :
       /\ request' = Request("GET /api/jobs/:id", id)
       /\ response' = getById(id, jobsStore, "Invalid job ID", "Job not found")
  /\ UNCHANGED <<jobsStore, applicationsStore, nextId>>
  /\ UNCHANGED coreVars
  /\ UNCHANGED hostVars

\* the listing sorts the store itself instead of a copy of its values
ListApplicationsSortingTheStore ==
  /\ request = NotCalled
  /\ \E jobId \in IdsFor(jobsStore) :
       \E sortBy \in {Undefined, Str(<<"s", "c", "o", "r", "e">>),
                      Str(<<"d", "a", "t", "e">>), Str(<<"n", "a", "m", "e">>)} :
         /\ request' = Request("GET /api/jobs/:jobId/applications",
                               [jobId |-> jobId, sortBy |-> sortBy])
         /\ response' = listApplications(jobId, sortBy, jobsStore, applicationsStore)
         /\ applicationsStore' = IF response'.status = 200 THEN response'.body.e
                                 ELSE applicationsStore
  /\ UNCHANGED <<jobsStore, nextId>>
  /\ UNCHANGED coreVars
  /\ UNCHANGED hostVars

ListApplications ==
  /\ request = NotCalled
  /\ \E jobId \in IdsFor(jobsStore) :
       \E sortBy \in {Undefined, Str(<<"s", "c", "o", "r", "e">>),
                      Str(<<"d", "a", "t", "e">>), Str(<<"n", "a", "m", "e">>)} :
         /\ request' = Request("GET /api/jobs/:jobId/applications",
                               [jobId |-> jobId, sortBy |-> sortBy])
         /\ response' = listApplications(jobId, sortBy, jobsStore, applicationsStore)
  /\ UNCHANGED <<jobsStore, applicationsStore, nextId>>
  /\ UNCHANGED coreVars
  /\ UNCHANGED hostVars

GetApplication ==
  /\ request = NotCalled
  /\ \E id \in IdsFor(applicationsStore) :
       /\ request' = Request("GET /api/applications/:id", id)
       /\ response' = getById(id, applicationsStore, "Invalid application ID",
                              "Application not found")
  /\ UNCHANGED <<jobsStore, applicationsStore, nextId>>
  /\ UNCHANGED coreVars
  /\ UNCHANGED hostVars

\* any other route (line 362)
UnknownRoute ==
  /\ request = NotCalled
  /\ request' = Request("GET /api/unknown", Undefined)
  /\ response' = NotFound("Endpoint not found")
  /\ UNCHANGED <<jobsStore, applicationsStore, nextId>>
  /\ UNCHANGED coreVars
  /\ UNCHANGED hostVars

\* res.json(...) has sent the response: the request is over
Deliver ==
  /\ request # NotCalled
  /\ request' = NotCalled
  /\ response' = NotCalled
  /\ UNCHANGED <<jobsStore, applicationsStore, nextId>>
  /\ UNCHANGED coreVars
  /\ UNCHANGED hostVars

NextApp ==
  \/ CreateJob
  \/ SubmitApplication
  \/ ListJobs
  \/ GetJob
  \/ ListApplications
  \/ GetApplication
  \/ UnknownRoute
  \/ Deliver

SpecApp == InitApp /\ [][NextApp]_vars

(***************************************************************************)
(* The service with several jobs: job creation, submission and the listing *)
(* of a job's applications, over a store of up to MaxBoardJobs jobs.       *)
(***************************************************************************)
MaxBoardJobs == 2
MaxBoardApps == 2

\* question drafts the validator accepts: a single-choice question that
\* carries an id chosen by the client, a number question, and a number
\* question whose points are the string "1"
BoardQuestions ==
  [single |->
     [NoVariantFields EXCEPT !.options = Arr(<<Str(<<"1">>), Str(<<"2">>)>>),
                             !.correctOption = Str(<<"1">>)]
       @@ [text |-> Str(<<"S">>), type |-> SINGLE_CHOICE, points |-> Rat(1, 8),
           id |-> Uuid(3)],
   number |->
     [NoVariantFields EXCEPT !.min = Num(0), !.max = Num(2)]
       @@ [text |-> Str(<<"N">>), type |-> NUMBER, points |-> Num(1)],
   quoted |->
     [NoVariantFields EXCEPT !.min = Num(0), !.max = Num(2)]
       @@ [text |-> Str(<<"P">>), type |-> NUMBER, points |-> Str(<<"1">>)]]

\* bodies of POST /api/jobs: a job of one question, a job of two, and a
\* body without questions
BoardJobDtos ==
  {[title |-> Str(<<"T">>), questions |-> qs] :
     qs \in {Undefined,
             Arr(<<BoardQuestions.single>>),
             Arr(<<BoardQuestions.quoted, BoardQuestions.number>>)}}

\* the ids of the questions of all the jobs of the store
QuestionIds(jobs) ==
  {jobs[j].questions[i].id : <<j, i>> \in
     {p \in (1..Len(jobs)) \X (1..MaxQuestions) : p[2] <= Len(jobs[p[1]].questions)}}

\* bodies of POST /api/applications naming jobId: one or two answers, each
\* to a question of any stored job, with a value inside or outside what the
\* questions accept
BoardAppDtos(jobId, jobs) ==
  LET entries == {[questionId |-> i, value |-> v] :
                    i \in QuestionIds(jobs), v \in {Str(<<"1">>), Str(<<"3">>)}}
  IN {[jobId |-> jobId, candidateName |-> Str(<<"A">>), answers |-> Arr(e)] :
        e \in SeqsUpTo(entries, MaxEntries) \ {<<>>}}

CreateBoardJob ==
  /\ request = NotCalled
  /\ \E dto \in BoardJobDtos :
       \E r \in {createJob(dto, nextId)} :
         /\ Len(jobsStore) + Len(r.stored) <= MaxBoardJobs
         /\ jobsStore' = IF r.stored = <<>> THEN jobsStore
                         ELSE MapSet(jobsStore, r.stored[1])
         /\ request' = Request("POST /api/jobs", dto)
         /\ response' = r.response
         /\ nextId' = nextId + r.ids
  /\ UNCHANGED applicationsStore
  /\ UNCHANGED coreVars
  /\ UNCHANGED hostVars

SubmitBoardApplication ==
  /\ request = NotCalled
  /\ \E jobId \in {jobsStore[j].id : j \in 1..Len(jobsStore)} :
       \E dto \in BoardAppDtos(jobId, jobsStore), now \in Instants(applicationsStore) :
         \E r \in {submitApplication(dto, jobsStore, nextId, now)} :
           /\ Len(applicationsStore) + Len(r.stored) <= MaxBoardApps
           /\ applicationsStore' = IF r.stored = <<>> THEN applicationsStore
                                   ELSE MapSet(applicationsStore, r.stored[1])
           /\ request' = Request("POST /api/applications", dto)
           /\ response' = r.response
           /\ nextId' = nextId + r.ids
  /\ UNCHANGED jobsStore
  /\ UNCHANGED coreVars
  /\ UNCHANGED hostVars

NextBoard ==
  \/ CreateBoardJob
  \/ SubmitBoardApplication
  \/ ListApplications
  \/ Deliver

SpecBoard == InitApp /\ [][NextBoard]_vars

(***************************************************************************)
(* Requests handled concurrently.  A request arrives, the body parser and  *)
(* the validators of its route run asynchronously and read the request     *)
(* only, and then its handler runs.  The handlers of app.ts are async      *)
(* functions without an await, so a handler runs from its first statement  *)
(* to res.json without another handler running in between; handlers of     *)
(* requests in flight run in any order.                                    *)
(***************************************************************************)
\* at most MaxInflight requests wait for their handler at a time
MaxInflight == 2
\* at most MaxServed requests arrive in a run
MaxServed == 3

\* the request waiting at position i leaves the queue
Leave(queue, i) == SubSeq(queue, 1, i - 1) \o SubSeq(queue, i + 1, Len(queue))

\* a request arrives: it names a job that the client has seen, and it is
\* numbered by its arrival
Receive ==
  /\ Len(inflight) < MaxInflight
  /\ Len(served) + Len(inflight) < MaxServed
  /\ \E req \in {Request("POST /api/jobs", dto) : dto \in BoardJobDtos}
               \cup UNION {{Request("POST /api/applications", dto) :
                              dto \in BoardAppDtos(jobsStore[j].id, jobsStore)} :
                           j \in 1..Len(jobsStore)} :
       inflight' = Append(inflight, [request |-> req,
                                     arrival |-> Len(served) + Len(inflight) + 1])
  /\ UNCHANGED <<served, server, exitCode>>
  /\ UNCHANGED appVars
  /\ UNCHANGED coreVars

\* the identifiers are drawn again: uuidv4 returns what it returned before
HandleCreateJobReusingIds ==
  /\ \E i \in 1..Len(inflight) :
       /\ inflight[i].request.k = "POST /api/jobs"
       /\ \E r \in {createJob(inflight[i].request.input, 1)} :
            /\ jobsStore' = IF r.stored = <<>> THEN jobsStore
                            ELSE MapSet(jobsStore, r.stored[1])
            /\ served' = Append(served, [request |-> inflight[i].request,
                                         arrival |-> inflight[i].arrival,
                                         now |-> 0,
                                         response |-> r.response])
            /\ nextId' = nextId + r.ids
       /\ inflight' = Leave(inflight, i)
  /\ UNCHANGED <<applicationsStore, request, response, server, exitCode>>
  /\ UNCHANGED coreVars

\* the handler of POST /api/jobs runs for a request in flight
HandleCreateJob ==
  /\ \E i \in 1..Len(inflight) :
       /\ inflight[i].request.k = "POST /api/jobs"
       /\ \E r \in {createJob(inflight[i].request.input, nextId)} :
            /\ jobsStore' = IF r.stored = <<>> THEN jobsStore
                            ELSE MapSet(jobsStore, r.stored[1])
            /\ served' = Append(served, [request |-> inflight[i].request,
                                         arrival |-> inflight[i].arrival,
                                         now |-> 0,
                                         response |-> r.response])
            /\ nextId' = nextId + r.ids
       /\ inflight' = Leave(inflight, i)
  /\ UNCHANGED <<applicationsStore, request, response, server, exitCode>>
  /\ UNCHANGED coreVars

\* the handler of POST /api/applications runs for a request in flight
HandleSubmitApplication ==
  /\ \E i \in 1..Len(inflight), now \in Instants(applicationsStore) :
       /\ inflight[i].request.k = "POST /api/applications"
       /\ \E r \in {submitApplication(inflight[i].request.input, jobsStore, nextId, now)} :
            /\ applicationsStore' = IF r.stored = <<>> THEN applicationsStore
                                    ELSE MapSet(applicationsStore, r.stored[1])
            /\ served' = Append(served, [request |-> inflight[i].request,
                                         arrival |-> inflight[i].arrival,
                                         now |-> now,
                                         response |-> r.response])
            /\ nextId' = nextId + r.ids
       /\ inflight' = Leave(inflight, i)
  /\ UNCHANGED <<jobsStore, request, response, server, exitCode>>
  /\ UNCHANGED coreVars

NextConcurrent ==
  \/ Receive
  \/ HandleCreateJob
  \/ HandleSubmitApplication

SpecConcurrent == InitApp /\ [][NextConcurrent]_vars

(***************************************************************************)
(* The process of src/src/server.ts: the HTTP server, its connections, and *)
(* the handlers of SIGTERM and SIGINT.                                     *)
(***************************************************************************)
\* clients open at most MaxConnections connections
MaxConnections == 3
\* at most MaxSignals signals reach the process
MaxSignals == 2

Connections == 1..MaxConnections

\* process.exit(code) has been called
Exit(code) == [k |-> "exit", code |-> code]

\* the server has stopped listening, its last connection has ended, and the
\* 'close' event it then emits on the next tick has not been emitted yet:
\* nothing else runs before it
CloseIsDue == ~server.listening /\ server.connections = {} /\ ~server.closed

\* server.close(callback) (server.ts:13,21): the server stops accepting
\* connections and the callback is registered for the 'close' event; the
\* connections stay open, or, where the runtime closes idle connections on
\* close, those without a request being served are closed
AfterClose(callback) ==
  {[server EXCEPT !.listening = FALSE,
                  !.connections = open,
                  !.closeListeners = Append(server.closeListeners, callback)] :
     open \in {server.connections, server.busy}}

\* a client connects
Connect ==
  /\ exitCode = NotCalled
  /\ server.listening
  /\ \E c \in Connections \ server.connections :
       server' = [server EXCEPT !.connections = server.connections \cup {c}]
  /\ UNCHANGED <<exitCode, inflight, served>>
  /\ UNCHANGED appVars
  /\ UNCHANGED coreVars

\* a request arrives on an open connection that serves none
BeginRequest ==
  /\ exitCode = NotCalled
  /\ \E c \in server.connections \ server.busy :
       server' = [server EXCEPT !.busy = server.busy \cup {c}]
  /\ UNCHANGED <<exitCode, inflight, served>>
  /\ UNCHANGED appVars
  /\ UNCHANGED coreVars

\* the response to the request on a connection has been sent
EndRequest ==
  /\ exitCode = NotCalled
  /\ \E c \in server.busy :
       server' = [server EXCEPT !.busy = server.busy \ {c}]
  /\ UNCHANGED <<exitCode, inflight, served>>
  /\ UNCHANGED appVars
  /\ UNCHANGED coreVars

\* connection c ends: the client closes it or it times out
EndConnection(c) ==
  /\ exitCode = NotCalled
  /\ c \in server.connections
  /\ server' = [server EXCEPT !.connections = server.connections \ {c},
                              !.busy = server.busy \ {c}]
  /\ UNCHANGED <<exitCode, inflight, served>>
  /\ UNCHANGED appVars
  /\ UNCHANGED coreVars

EndSomeConnection == \E c \in Connections : EndConnection(c)

\* the handler exits without waiting for the server to close
SigtermExitingAtOnce ==
  /\ exitCode = NotCalled
  /\ ~CloseIsDue
  /\ Len(server.closeListeners) < MaxSignals
  /\ server' \in AfterClose("SIGTERM")
  /\ exitCode' = Exit(0)
  /\ UNCHANGED <<inflight, served>>
  /\ UNCHANGED appVars
  /\ UNCHANGED coreVars

\* the handler of SIGTERM (server.ts:11-17) runs
Sigterm ==
  /\ exitCode = NotCalled
  /\ ~CloseIsDue
  /\ Len(server.closeListeners) < MaxSignals
  /\ server' \in AfterClose("SIGTERM")
  /\ UNCHANGED <<exitCode, inflight, served>>
  /\ UNCHANGED appVars
  /\ UNCHANGED coreVars

\* the handler of SIGINT (server.ts:19-25) runs
Sigint ==
  /\ exitCode = NotCalled
  /\ ~CloseIsDue
  /\ Len(server.closeListeners) < MaxSignals
  /\ server' \in AfterClose("SIGINT")
  /\ UNCHANGED <<exitCode, inflight, served>>
  /\ UNCHANGED appVars
  /\ UNCHANGED coreVars

\* the server emits 'close': the callbacks registered by server.close run in
\* the order of their registration, and the first of them calls
\* process.exit(0) (server.ts:15,23)
EmitClose ==
  /\ exitCode = NotCalled
  /\ CloseIsDue
  /\ server' = [server EXCEPT !.closed = TRUE]
  /\ exitCode' = IF server.closeListeners # <<>> THEN Exit(0) ELSE exitCode
  /\ UNCHANGED <<inflight, served>>
  /\ UNCHANGED appVars
  /\ UNCHANGED coreVars

NextServer ==
  \/ Connect
  \/ BeginRequest
  \/ EndRequest
  \/ EndSomeConnection
  \/ Sigterm
  \/ Sigint
  \/ EmitClose

SpecServer == InitApp /\ [][NextServer]_vars

\* every open connection eventually ends, and an event that is due is
\* eventually run by the event loop
SpecServerFair ==
  /\ SpecServer
  /\ \A c \in Connections : WF_vars(EndConnection(c))
  /\ WF_vars(EmitClose)

(***************************************************************************)
(* Claims about the service, checked under SpecApp.                        *)
(***************************************************************************)
\* the job an application names, and the sets of ids the id check compares
JobOf(dto) == MapGet(jobsStore, dto.jobId)
AnsweredIdSet(dto) == {dto.answers.e[i].questionId : i \in 1..Len(dto.answers.e)}
RequiredIdSet(dto) == {JobOf(dto).questions[j].id : j \in 1..Len(JobOf(dto).questions)}

\* the request served is a well-formed submission for a stored job with a
\* non-empty list of answers
SubmissionForStoredJob(req) ==
  /\ req.k = "POST /api/applications"
  /\ notEmpty(req.input.candidateName)
  /\ MapHas(jobsStore, req.input.jobId)
  /\ IsArray(req.input.answers)
  /\ Len(req.input.answers.e) > 0

\* C15: a submission for an existing job with a non-empty answers array is
\* accepted (201, the application added to the store) exactly when the set
\* of answered question ids equals the set of the job's question ids;
\* otherwise it is answered 400 and the application store is unchanged.
C15_AcceptedIffIdsMatch ==
  [][SubmissionForStoredJob(request')
     => IF AnsweredIdSet(request'.input) = RequiredIdSet(request'.input)
        THEN /\ response'.status = 201
             /\ applicationsStore' = Append(applicationsStore, response'.body)
        ELSE /\ response'.status = 400
             /\ applicationsStore' = applicationsStore]_vars

\* the number of entries of list whose questionId is id
EntriesFor(list, id) == Cardinality({i \in 1..Len(list) : list[i].questionId = id})

\* C16: every stored application has exactly one answer and exactly one
\* scoreBreakdown entry per question of its job.
C16_OneEntryPerQuestion ==
  \A a \in 1..Len(applicationsStore) :
    LET app == applicationsStore[a]
        job == MapGet(jobsStore, app.jobId)
    IN /\ Len(app.scoreBreakdown) = Len(job.questions)
       /\ \A j \in 1..Len(job.questions) :
            /\ EntriesFor(app.answers, job.questions[j].id) = 1
            /\ EntriesFor(app.scoreBreakdown, job.questions[j].id) = 1

\* C17: in every scoreBreakdown entry of every stored application,
\* 0 <= pointsEarned <= pointsPossible, pointsPossible being the points of
\* the question, and pointsEarned has at most two decimals.
C17_EarnedWithinPossible ==
  \A a \in 1..Len(applicationsStore) :
    \A i \in 1..Len(applicationsStore[a].scoreBreakdown) :
      LET entry == applicationsStore[a].scoreBreakdown[i]
      IN /\ 100 % entry.pointsEarned.d = 0
         /\ ~RatLess(entry.pointsEarned, Num(0))
         /\ ~RatLess(entry.pointsPossible, entry.pointsEarned)

\* C18: every question of every stored job yields an empty validateQuestion
\* result, and no stored job is without questions.
C18_StoredQuestionsAreValid ==
  \A j \in 1..Len(jobsStore) :
    /\ Len(jobsStore[j].questions) >= 1
    /\ \A i \in 1..Len(jobsStore[j].questions) :
         validateQuestion(jobsStore[j].questions[i]) = Return(<<>>)

\* a job of two questions has just been stored, and is being scored against
C18_Witness ==
  /\ request.k = "POST /api/applications"
  /\ response.status = 201
  /\ Len(jobsStore) = 1
  /\ Len(jobsStore[1].questions) = 2

\* C19: whatever request is served, the jobs and the applications already
\* stored stay as they are and where they are; a store changes only by the
\* entry that an accepted POST (201) adds at its end.
C19_StoresOnlyGrow ==
  [][/\ Len(jobsStore') >= Len(jobsStore)
     /\ SubSeq(jobsStore', 1, Len(jobsStore)) = jobsStore
     /\ Len(applicationsStore') >= Len(applicationsStore)
     /\ SubSeq(applicationsStore', 1, Len(applicationsStore)) = applicationsStore
     /\ (jobsStore' # jobsStore
           => /\ request'.k = "POST /api/jobs"
              /\ response'.status = 201
              /\ jobsStore' = Append(jobsStore, response'.body))
     /\ (applicationsStore' # applicationsStore
           => /\ request'.k = "POST /api/applications"
              /\ response'.status = 201
              /\ applicationsStore' = Append(applicationsStore, response'.body))]_vars

\* two applications are stored and a listing has returned them in another
\* order than the store holds them
C19_Witness ==
  /\ request.k = "GET /api/jobs/:jobId/applications"
  /\ response.status = 200
  /\ Len(applicationsStore) = 2
  /\ Len(response.body.e) = 2
  /\ response.body.e # applicationsStore

\* the request served creates a job with well-formed fields, and the
\* validator returns an error for at least one of its questions
JobWithReportedErrors(req) ==
  /\ req.k = "POST /api/jobs"
  /\ notEmpty(req.input.title)
  /\ IsArray(req.input.questions)
  /\ \E i \in 1..Len(req.input.questions.e) :
       /\ validateQuestion(req.input.questions.e[i]).k = "return"
       /\ validateQuestion(req.input.questions.e[i]).v # <<>>

\* details lists every error of every question of qs, and nothing else, as
\* the pair of the 1-based position of the question and the message; the
\* questions in request order, the messages of a question in validator order
ListsEveryError(details, qs) ==
  LET errs(i) == validateQuestion(qs[i]).v
      at(i, m) == CHOOSE j \in 1..Len(errs(i)) : errs(i)[j] = m
  IN /\ \A i \in 1..Len(qs) : \A j \in 1..Len(errs(i)) :
          \E k \in 1..Len(details) :
            details[k] = [question |-> i, message |-> errs(i)[j]]
     /\ \A k \in 1..Len(details) :
          /\ details[k].question \in 1..Len(qs)
          /\ \E j \in 1..Len(errs(details[k].question)) :
               errs(details[k].question)[j] = details[k].message
     /\ \A k, l \in 1..Len(details) :
          k < l =>
            \/ details[k].question < details[l].question
            \/ /\ details[k].question = details[l].question
               /\ at(details[k].question, details[k].message)
                    < at(details[l].question, details[l].message)

\* C20: POST /api/jobs in which a question fails validateQuestion is
\* answered 400 'Validation failed' with details listing every error of
\* every question as 'Question <i>: <message>', in order, and no job is
\* added to the store.
C20_InvalidQuestionsReported ==
  [][JobWithReportedErrors(request')
     => /\ response'.status = 400
        /\ response'.body.error = "Validation failed"
        /\ ListsEveryError(response'.body.details, request'.input.questions.e)
        /\ jobsStore' = jobsStore]_vars

\* the request served is a submission with a candidate name and an answers
\* field, naming by a well-formed UUID a job that is not in the store
SubmissionForUnknownJob(req) ==
  /\ req.k = "POST /api/applications"
  /\ notEmpty(req.input.candidateName)
  /\ req.input.answers.k # "undefined"
  /\ isUUID(req.input.jobId)
  /\ ~MapHas(jobsStore, req.input.jobId)

QuestionWithId(job, id) ==
  job.questions[CHOOSE j \in 1..Len(job.questions) : job.questions[j].id = id]

\* C25: in every stored application scoreBreakdown[i] is the result for
\* answers[i]: same questionId, the answer's value, and the text and the
\* points of the question it names.
C25_BreakdownFollowsAnswers ==
  \A a \in 1..Len(applicationsStore) :
    LET app == applicationsStore[a]
        job == MapGet(jobsStore, app.jobId)
    IN /\ Len(app.scoreBreakdown) = Len(app.answers)
       /\ \A i \in 1..Len(app.answers) :
            /\ app.scoreBreakdown[i].questionId = app.answers[i].questionId
            /\ app.scoreBreakdown[i].answer = app.answers[i].value
            /\ app.scoreBreakdown[i].questionText
                 = QuestionWithId(job, app.answers[i].questionId).text
            /\ app.scoreBreakdown[i].pointsPossible
                 = QuestionWithId(job, app.answers[i].questionId).points

\* an application is stored whose answers come in another order than the
\* questions of its job, with different values
C25_Witness ==
  \E a \in 1..Len(applicationsStore) :
    LET app == applicationsStore[a]
        job == MapGet(jobsStore, app.jobId)
    IN /\ Len(job.questions) = 2
       /\ Len(app.answers) = 2
       /\ app.answers[1].questionId = job.questions[2].id
       /\ app.answers[2].questionId = job.questions[1].id
       /\ app.answers[1].value # app.answers[2].value
       /\ job.questions[1].text # job.questions[2].text

\* C27: for every stored application maxScore is the sum of the points of
\* the questions of its job, rounded to 2 decimals, and
\* 0 <= totalScore <= maxScore.
C27_MaxScoreIsSumOfPoints ==
  \A a \in 1..Len(applicationsStore) :
    LET app == applicationsStore[a]
        job == MapGet(jobsStore, app.jobId)
    IN /\ app.maxScore
            = Round2(SumOf([j \in 1..Len(job.questions) |-> job.questions[j].points]))
       /\ ~RatLess(app.totalScore, Num(0))
       /\ ~RatLess(app.maxScore, app.totalScore)

\* |x - y| <= z for numbers x, y, z
WithinDistance(x, y, z) == Abs(x.n * y.d - y.n * x.d) * z.d <= z.n * x.d * y.d

\* C28: for every stored application totalScore is the 2-decimal rounding
\* of the sum of the scores calculateScore returns for its answers, and it
\* differs from the sum of the pointsEarned of its breakdown by at most
\* 0.005 * (number of answers + 1).
C28_TotalRoundsUnroundedSum ==
  \A a \in 1..Len(applicationsStore) :
    LET app == applicationsStore[a]
        job == MapGet(jobsStore, app.jobId)
        n == Len(app.answers)
    IN /\ app.totalScore
            = Round2(SumOf([i \in 1..n |->
                 calculateScore(QuestionWithId(job, app.answers[i].questionId),
                                app.answers[i].value).v]))
       /\ WithinDistance(app.totalScore,
                         SumOf([i \in 1..n |-> app.scoreBreakdown[i].pointsEarned]),
                         Rat(n + 1, 200))

\* an application is stored whose totalScore is not the sum of its
\* pointsEarned
C28_Witness ==
  \E a \in 1..Len(applicationsStore) :
    applicationsStore[a].totalScore
      # SumOf([i \in 1..Len(applicationsStore[a].scoreBreakdown) |->
                 applicationsStore[a].scoreBreakdown[i].pointsEarned])

\* the type of the draft is missing or is none of the four variants
TypeUnknown(q) == q.type \notin {SINGLE_CHOICE, MULTI_CHOICE, NUMBER, TEXT}

\* C24: for a draft whose type is missing or unknown validateQuestion
\* reports "Invalid question type" and no variant-specific error: only the
\* text and the points error can accompany it, whatever the variant fields.
C24_UnknownTypeSkipsVariantRules ==
  (pc # "draft" /\ TypeUnknown(question))
    => /\ errors.k = "return"
       /\ \E i \in 1..Len(errors.v) : errors.v[i] = "Invalid question type"
       /\ \A i \in 1..Len(errors.v) :
            errors.v[i] \in {"Question text is required", "Invalid question type",
                             "Points must be greater than 0"}

\* the request served is a listing of applications with a well-formed job
\* id and an absent or known sortBy
ListingServed ==
  /\ request.k = "GET /api/jobs/:jobId/applications"
  /\ isUUID(request.input.jobId)
  /\ request.input.sortBy \in {Undefined, Str(<<"s", "c", "o", "r", "e">>),
                               Str(<<"d", "a", "t", "e">>)}

\* the key the listing served is ordered by
ListingKey ==
  IF request.input.sortBy = Str(<<"d", "a", "t", "e">>) THEN "submittedAt" ELSE "totalScore"

\* the stored applications of the job the listing names, in store order
ApplicationsOfListedJob ==
  SelectSeq(applicationsStore, LAMBDA a : a.jobId = request.input.jobId)

QuestionIdsOfJob(jobId) ==
  UNION {{jobsStore[j].questions[i].id : i \in 1..Len(jobsStore[j].questions)} :
           j \in {k \in 1..Len(jobsStore) : jobsStore[k].id = jobId}}

\* C29: every stored application names a stored job, and every questionId
\* of its answers and of its scoreBreakdown is the id of a question of that
\* job.
C29_ReferencesResolve ==
  \A a \in 1..Len(applicationsStore) :
    LET app == applicationsStore[a]
    IN /\ \E j \in 1..Len(jobsStore) : jobsStore[j].id = app.jobId
       /\ \A i \in 1..Len(app.answers) :
            app.answers[i].questionId \in QuestionIdsOfJob(app.jobId)
       /\ \A i \in 1..Len(app.scoreBreakdown) :
            app.scoreBreakdown[i].questionId \in QuestionIdsOfJob(app.jobId)

\* two jobs are stored and an application to the second one is stored
C29_Witness ==
  /\ Len(jobsStore) = 2
  /\ \E a \in 1..Len(applicationsStore) : applicationsStore[a].jobId = jobsStore[2].id

\* all identifiers in the stores: of jobs, of their questions, of applications
StoredIds ==
  {jobsStore[j].id : j \in 1..Len(jobsStore)}
  \cup QuestionIds(jobsStore)
  \cup {applicationsStore[a].id : a \in 1..Len(applicationsStore)}

\* the questions of all stored jobs, as pairs of job and position
StoredQuestions(jobs) ==
  {p \in (1..Len(jobs)) \X (1..MaxQuestions) : p[2] <= Len(jobs[p[1]].questions)}

\* C30: when a job is created every question is stored, in the order of the
\* request and with the fields of its draft, under an id drawn from uuidv4
\* while the request is served, whatever id the draft carried; the question
\* ids are pairwise distinct within the job and across all stored jobs.
C30_QuestionIdsAreServerGenerated ==
  [][(request'.k = "POST /api/jobs" /\ response'.status = 201)
     => LET job == jobsStore'[Len(jobsStore')]
            drafts == request'.input.questions.e
        IN /\ Len(job.questions) = Len(drafts)
           /\ \A i \in 1..Len(drafts) :
                /\ \E n \in nextId..(nextId' - 1) : job.questions[i].id = Uuid(n)
                /\ job.questions[i].id \notin StoredIds
                /\ \A f \in DOMAIN drafts[i] \ {"id"} : job.questions[i][f] = drafts[i][f]
           /\ \A p, q \in StoredQuestions(jobsStore') :
                p # q => jobsStore'[p[1]].questions[p[2]].id
                           # jobsStore'[q[1]].questions[q[2]].id]_vars

\* a second job has been created from a draft carrying the id of a question
\* of the first job, and is stored under another id
C30_Witness ==
  /\ request.k = "POST /api/jobs"
  /\ response.status = 201
  /\ Len(jobsStore) = 2
  /\ "id" \in DOMAIN request.input.questions.e[1]
  /\ request.input.questions.e[1].id \in QuestionIdsOfJob(jobsStore[1].id)
  /\ jobsStore[2].questions[1].id # request.input.questions.e[1].id

\* the stores and the number of identifiers drawn after the request of
\* entry is served on its own in the state `before`
AfterServing(before, entry) ==
  IF entry.request.k = "POST /api/jobs"
  THEN LET r == createJob(entry.request.input, before.nextId)
       IN [jobs |-> IF r.stored = <<>> THEN before.jobs ELSE MapSet(before.jobs, r.stored[1]),
           apps |-> before.apps,
           nextId |-> before.nextId + r.ids,
           responses |-> Append(before.responses, r.response)]
  ELSE LET r == submitApplication(entry.request.input, before.jobs, before.nextId, entry.now)
       IN [jobs |-> before.jobs,
           apps |-> IF r.stored = <<>> THEN before.apps ELSE MapSet(before.apps, r.stored[1]),
           nextId |-> before.nextId + r.ids,
           responses |-> Append(before.responses, r.response)]

RECURSIVE Serially(_)
\* the outcome of serving the requests of a history one after the other,
\* each to its end before the next arrives, from the empty stores
Serially(history) ==
  IF history = <<>>
  THEN [jobs |-> <<>>, apps |-> <<>>, nextId |-> 1, responses |-> <<>>]
  ELSE AfterServing(Serially(SubSeq(history, 1, Len(history) - 1)), history[Len(history)])

\* the application as the submission scores when it is the only request the
\* service ever gets after the job was created
ScoredAlone(app, jobs) ==
  submitApplication([jobId |-> app.jobId, candidateName |-> app.candidateName,
                     answers |-> Arr(app.answers)],
                    <<MapGet(jobs, app.jobId)>>, 1, 0).stored[1]

\* C23: when job creations and submissions are handled concurrently, the
\* stores and the responses are those of serving the same requests one
\* after the other in the order their handlers ran; every accepted request
\* adds exactly one entry, under an identifier no stored entity has, and
\* leaves the entries already stored as they are; every stored application
\* has the scores its submission gets when served alone.
C23_ConcurrentRequestsSerialize ==
  [][/\ Serially(served').jobs = jobsStore'
     /\ Serially(served').apps = applicationsStore'
     /\ Serially(served').responses = [i \in 1..Len(served') |-> served'[i].response]
     /\ (served' # served /\ served'[Len(served')].response.status = 201)
          => /\ Len(jobsStore') + Len(applicationsStore')
                  = Len(jobsStore) + Len(applicationsStore) + 1
             /\ served'[Len(served')].response.body.id \notin StoredIds
     /\ SubSeq(jobsStore', 1, Len(jobsStore)) = jobsStore
     /\ SubSeq(applicationsStore', 1, Len(applicationsStore)) = applicationsStore
     /\ \A a \in 1..Len(applicationsStore') :
          /\ applicationsStore'[a].totalScore = ScoredAlone(applicationsStore'[a], jobsStore').totalScore
          /\ applicationsStore'[a].maxScore = ScoredAlone(applicationsStore'[a], jobsStore').maxScore
          /\ applicationsStore'[a].scoreBreakdown
               = ScoredAlone(applicationsStore'[a], jobsStore').scoreBreakdown]_vars

\* a job creation and a submission were in flight together, the handler of
\* the submission ran before that of the job creation, which had arrived
\* first, and both were accepted
C23_Witness ==
  \E i \in 1..(Len(served) - 1) :
    /\ served[i].arrival > served[i + 1].arrival
    /\ served[i].request.k = "POST /api/applications"
    /\ served[i + 1].request.k = "POST /api/jobs"
    /\ served[i].response.status = 201
    /\ served[i + 1].response.status = 201

\* C26: after SIGTERM or SIGINT the process calls process.exit only when
\* the HTTP server has finished closing, that is when its 'close' callback
\* fires, and with code 0; and, as every open connection eventually ends,
\* a process that got such a signal eventually exits with code 0.
C26_ExitsAfterServerClosed ==
  /\ [][(exitCode = NotCalled /\ exitCode' # NotCalled)
        => /\ exitCode' = Exit(0)
           /\ server.closeListeners # <<>>
           /\ ~server.listening
           /\ server.connections = {}
           /\ server'.closed]_vars
  /\ (server.closeListeners # <<>>) ~> (exitCode = Exit(0))

\* the process has exited with code 0 after a SIGTERM and then a SIGINT,
\* the second of which arrived while connections kept the server from
\* closing
C26_Witness ==
  /\ exitCode = Exit(0)
  /\ server.closeListeners = <<"SIGTERM", "SIGINT">>
  /\ server.closed

====
